---- MODULE Spec2Model ----
(***************************************************************************)
(* QuickHire AI: the submit handler of #careerForm (src/script.js).        *)
(*                                                                         *)
(* One orchestration ("run") is one invocation of the async submit         *)
(* listener.  It executes synchronously up to its first await, and is      *)
(* resumed once for every awaited promise (fetch, blob, fetch, blob).      *)
(* Runs of different submit events interleave at those awaits; all of them *)
(* share localStorage and the DOM.                                         *)
(*                                                                         *)
(* A submit event is dispatched by the page, not by the handler: the handler*)
(* disables button[type="submit"] while it runs but registers no guard, so *)
(* a submit event that reaches the form by another route (another submit   *)
(* control, requestSubmit) starts a second run while the first is          *)
(* suspended.  Submit is therefore enabled whatever submitBtn.disabled is. *)
(*                                                                         *)
(* Strings the code parses or formats (the stored credit balance, the form *)
(* fields) are sequences of one-character strings, so that parseInt,       *)
(* number-to-string conversion and trim are computed rather than assumed.  *)
(* Strings that are only compared (plan, labels, messages) are TLA+        *)
(* strings.  Not modelled: the toast's fade-out timer, the anchor element  *)
(* of downloadBlob and its cleanup timer, and the width animation of the   *)
(* progress bar.                                                           *)
(***************************************************************************)
EXTENDS Integers, Sequences, FiniteSets, TLC

\* ---------------------------------------------------------------- bounds
MaxRuns == 2        \* submit events in one behaviour
MaxCredits == 2     \* largest credit balance persisted at page load

Runs == 1..MaxRuns

\* ------------------------------------------------------- string helpers
Radix == 10

DigitChars == <<"0", "1", "2", "3", "4", "5", "6", "7", "8", "9">>

IsDigit(ch) == \E d \in 1..Radix : DigitChars[d] = ch

DigitVal(ch) == (CHOOSE d \in 1..Radix : DigitChars[d] = ch) - 1

IsSpace(ch) == ch = " "

NaN == "NaN"

\* String(n) for an integer n, as localStorage.setItem and textContent apply it.
RECURSIVE NumberToString(_)
NumberToString(n) ==
    IF n < 0 THEN <<"-">> \o NumberToString(-n)
    ELSE IF n < Radix THEN <<DigitChars[n + 1]>>
    ELSE NumberToString(n \div Radix) \o <<DigitChars[(n % Radix) + 1]>>

RECURSIVE SkipSpaces(_, _)
SkipSpaces(s, i) ==
    IF i <= Len(s) /\ IsSpace(s[i]) THEN SkipSpaces(s, i + 1) ELSE i

RECURSIVE ParseDigits(_, _, _)
ParseDigits(s, i, acc) ==
    IF i > Len(s) \/ ~IsDigit(s[i]) THEN acc
    ELSE ParseDigits(s, i + 1, acc * Radix + DigitVal(s[i]))

\* parseInt(s, 10): leading white space, an optional sign, the longest run of
\* digits; NaN when there is no digit.
ParseInt(s) ==
    LET b == SkipSpaces(s, 1)
        neg == b <= Len(s) /\ s[b] = "-"
        signed == b <= Len(s) /\ s[b] \in {"-", "+"}
        d == IF signed THEN b + 1 ELSE b
    IN  IF d > Len(s) \/ ~IsDigit(s[d]) THEN NaN
        ELSE IF neg THEN 0 - ParseDigits(s, d, 0)
        ELSE ParseDigits(s, d, 0)

RECURSIVE TrimLeft(_)
TrimLeft(s) == IF Len(s) > 0 /\ IsSpace(Head(s)) THEN TrimLeft(Tail(s)) ELSE s

RECURSIVE TrimRight(_)
TrimRight(s) ==
    IF Len(s) > 0 /\ IsSpace(s[Len(s)]) THEN TrimRight(SubSeq(s, 1, Len(s) - 1)) ELSE s

\* String.prototype.trim
Trim(s) == TrimRight(TrimLeft(s))

\* ------------------------------------------------------------ constants
CreditsKey == "quickhire_credits"
PlanKey == "quickhire_plan"

DefaultCreditsTwo == <<"2">>

DefaultCredits == <<"1">>
DefaultPlan == "free"
Premium == "premium"
Infinity == <<"INF">>                \* the one-character string U+221E

SpinnerHTML == "<i class=fa-spinner></i> Generating..."
InitialBtnHTML == "<markup of the submit button at page load>"

StatusBusy == "Generating documents..."
StatusDone == "Generation complete."
StatusError == "Error occurred."

ProgressBusy == "Generating your documents..."
ProgressDone == "Done!"

GateToast == <<"No credits left. Please invite friends or upgrade.">>
ValidationToast == <<"Please fill out all required fields.">>
SuccessToast == <<"Your Resume & Cover Letter are ready!">>
ErrorPrefix == "Error: "             \* preceded by U+274C in the source
ResumeError == "Failed to generate resume."
CoverLetterError == "Failed to generate cover letter."
\* messages of exceptions the runtime raises; their text is the browser's
FetchRejected == "<message of the rejected fetch>"
BodyRejected == "<message of the rejected blob()>"
NullElement == "<TypeError: credit-count is null>"

ResumeFile == "QuickHire_Resume.pdf"
CoverLetterFile == "QuickHire_Cover_Letter.pdf"
ResumeUrl == "http://localhost:8000/generate-resume"
CoverLetterUrl == "http://localhost:8000/generate-cover-letter"

requiredFieldsWithoutIndustry == <<"current_position", "years_experience", "target_position">>

\* line 99
requiredFields == <<"current_position", "years_experience", "target_position", "industry">>

\* the keys of formData that are modelled (the ones the handler inspects)
FormKeys == {"current_position", "years_experience", "target_position", "industry"}

\* what the user may have typed into a field when the form is submitted
FieldValues == {<<>>, <<" ">>, <<" ", "a", " ">>}

Forms == [FormKeys -> FieldValues]

\* what the form may hold when a suspended run resumes: the user has set every
\* field to one of the values
FormsLater == {[k \in FormKeys |-> v] : v \in FieldValues}

\* a settled fetch: rejected (transport failure) or fulfilled with a status
FetchResults ==
    {[settled |-> "rejected", status |-> 0],
     [settled |-> "fulfilled", status |-> 200],
     [settled |-> "fulfilled", status |-> 500]}

\* ---------------------------------------------------------------- state
VARIABLES
    localStorage,     \* key -> stored string, for the keys that are present
    dom,              \* which optional elements the page has
    submitBtn,        \* [disabled, innerHTML] of button[type="submit"]
    statusLive,       \* textContent of #qh-status ("" before the first submit)
    toast,            \* [message, type] of #qh-toast
    creditCount,      \* textContent of #credit-count
    progress,         \* [display, text] of the progress container and label
    hideTimers,       \* pending setTimeout callbacks that hide the progress bar
    pc,               \* per run: where the async handler is suspended
    credits,          \* per run: the local variable credits
    userPlan,         \* per run: the local constant userPlan
    originalBtnHTML,  \* per run: the local constant originalBtnHTML
    formData,         \* per run: the local constant formData
    sent,             \* per run: the requests it has issued, until it returns
    log,              \* per run: what the run was given and did (history)
    atLoad            \* the UsageState and the persisted keys at page load (history)

vars == <<localStorage, dom, submitBtn, statusLive, toast, creditCount,
          progress, hideTimers, pc, credits, userPlan, originalBtnHTML, formData, sent,
          log, atLoad>>

\* ------------------------------------------------------------- storage
\* localStorage.getItem(key) || fallback, where empty is the empty string
GetItemOr(store, key, empty, fallback) ==
    IF key \in DOMAIN store /\ store[key] # empty THEN store[key] ELSE fallback

SetItem(store, key, value) ==
    [k \in DOMAIN store \cup {key} |-> IF k = key THEN value ELSE store[k]]

ReadCredits(store) == ParseInt(GetItemOr(store, CreditsKey, <<>>, DefaultCredits))

ReadPlan(store) == GetItemOr(store, PlanKey, "", DefaultPlan)

\* ---------------------------------------------------- handler predicates
GateIgnoresPlan(plan, c) == c <= 0

GateAdmitsZero(plan, c) == plan # Premium /\ c < 0

\* line 75: the credit gate
GateRejects(plan, c) == plan # Premium /\ c <= 0

getValUntrimmed(value) == value

\* line 83: getVal, on the value of the field (an absent control reads as "")
getVal(value) == Trim(value)

Collect(form) == [k \in FormKeys |-> getVal(form[k])]

\* lines 85-95: the order of the keys in the object literal
FormKeyOrder == <<"current_position", "years_experience", "target_position", "industry">>

\* JSON.stringify(formData): the members in key order
Stringify(data) == [i \in 1..Len(FormKeyOrder) |-> <<FormKeyOrder[i], data[FormKeyOrder[i]]>>]

CoverLetterDataRecollected(snapshot, now) == now

\* line 135: the cover-letter body is built from formData, the constant of
\* lines 84-96, whatever the form holds now
CoverLetterData(snapshot, now) == snapshot

\* a request as issued; formChanged tells whether the form, read again when
\* the request is issued, differs from what the run collected
Request(url, data, changed) ==
    [url |-> url, body |-> Stringify(data), formChanged |-> changed]

\* lines 100-107: some required field is falsy
Invalid(data) == \E i \in 1..Len(requiredFields) : data[requiredFields[i]] = <<>>

ResponseOkUnchecked(res) == TRUE

\* lines 126 and 137: Response.ok
ResponseOk(res) == res.status >= 200 /\ res.status <= 299

ChargedAlways(plan) == TRUE

\* line 143
Charged(plan) == plan # Premium

\* line 144
Decrement(c) == c - 1

CreditTextWithoutInfinity(plan, c) == NumberToString(c)

\* lines 147 and 177: the text of #credit-count
CreditText(plan, c) == IF plan = Premium THEN Infinity ELSE NumberToString(c)

\* ------------------------------------------------------------- history
UsageOf(store) == [plan |-> ReadPlan(store), credits |-> ReadCredits(store)]

\* the UsageState at page load, and the keys that were persisted then
LoadOf(store) ==
    [plan |-> ReadPlan(store), credits |-> ReadCredits(store), keys |-> DOMAIN store]

NoLog ==
    [events |-> <<>>,                 \* storage accesses, requests, downloads, in order
     usage0 |-> [plan |-> "", credits |-> 0],   \* UsageState when the run started
     usage1 |-> [plan |-> "", credits |-> 0],   \* UsageState when the run exited
     original |-> "",                 \* label of the submit control when the run started
     overlapped |-> FALSE,            \* another run was in flight during this one
     blank |-> FALSE,                 \* a required field was empty after trimming
     resumeRes |-> "none",            \* how the resume request ended: "ok", "failed"
     coverRes |-> "none",             \* how the cover-letter request ended
     outcome |-> "none",              \* how the run exited
     notice |-> "none"]               \* the kind of notification the run surfaced

\* the fields the contract requires, and emptiness after trimming, stated apart
\* from the handler's own validation
RequiredByContract == {"current_position", "years_experience", "target_position", "industry"}

OnlySpaces(value) == \A i \in 1..Len(value) : value[i] = " "

HasBlankRequired(form) == \E k \in RequiredByContract : OnlySpaces(form[k])

\* a request fails by a transport error or by a non-success status
ResultTag(res) ==
    IF res.settled = "fulfilled" /\ res.status \in 200..299 THEN "ok" ELSE "failed"

NoticeKind(message) ==
    IF message = GateToast THEN "credits-exhausted"
    ELSE IF message = ValidationToast THEN "missing-fields"
    ELSE IF message = SuccessToast THEN "ready"
    ELSE "error"

InFlight(r) == pc[r] \in {"resume", "resumeBlob", "coverLetter", "coverLetterBlob"}

NoneInFlight == \A r \in Runs : ~InFlight(r)

\* ----------------------------------------------------------------- Init
CreditsAtLoad == {NumberToString(n) : n \in 0..MaxCredits}

PlansAtLoad == {DefaultPlan, Premium}

StoresAtLoad ==
    {[k \in K |-> IF k = CreditsKey THEN c ELSE p] :
        K \in SUBSET {CreditsKey, PlanKey}, c \in CreditsAtLoad, p \in PlansAtLoad}

NoFormData == [k \in FormKeys |-> <<>>]

\* lines 169-180: updatePlanUI, on the text of #credit-count
updatePlanUI(store, old) ==
    IF dom.creditCountEl THEN CreditText(ReadPlan(store), ReadCredits(store)) ELSE old

Init ==
    /\ localStorage \in StoresAtLoad
    /\ dom \in [creditCountEl : BOOLEAN, progressEls : BOOLEAN]
    /\ submitBtn = [disabled |-> FALSE, innerHTML |-> InitialBtnHTML]
    /\ statusLive = ""
    /\ toast = [message |-> <<>>, type |-> "info"]
    /\ creditCount = updatePlanUI(localStorage, <<>>)
    /\ progress = [display |-> "none", text |-> ""]
    /\ hideTimers = 0
    /\ pc = [r \in Runs |-> "idle"]
    /\ credits = [r \in Runs |-> 0]
    /\ userPlan = [r \in Runs |-> ""]
    /\ originalBtnHTML = [r \in Runs |-> ""]
    /\ formData = [r \in Runs |-> NoFormData]
    /\ sent = [r \in Runs |-> <<>>]
    /\ log = [r \in Runs |-> NoLog]
    /\ atLoad = LoadOf(localStorage)

\* --------------------------------------------------------------- actions
\* lines 109-117: the handler shows and resets the progress bar
ShowProgress(p) ==
    IF dom.progressEls THEN [display |-> "block", text |-> ProgressBusy] ELSE p

\* lines 245-263: the second submit listener, registered when the progress
\* elements exist at page load; it shows and resets the progress bar
ProgressListener(p) ==
    IF dom.progressEls THEN [display |-> "block", text |-> ProgressBusy] ELSE p

\* line 162 and line 156: the progress container is hidden
HideProgress(p) == IF dom.progressEls THEN [p EXCEPT !.display = "none"] ELSE p

RestoredStillDisabled(html) == [disabled |-> TRUE, innerHTML |-> html]

\* lines 163-166 (and 77-78, 103-104): the submit control is restored
Restored(html) == [disabled |-> FALSE, innerHTML |-> html]

\* the locals of a run that has returned
Return(r) ==
    /\ pc' = [pc EXCEPT ![r] = "done"]
    /\ credits' = [credits EXCEPT ![r] = 0]
    /\ userPlan' = [userPlan EXCEPT ![r] = ""]
    /\ originalBtnHTML' = [originalBtnHTML EXCEPT ![r] = ""]
    /\ formData' = [formData EXCEPT ![r] = NoFormData]
    /\ sent' = [sent EXCEPT ![r] = <<>>]

\* lines 158-166: catch, then finally
Catch(r, message) ==
    /\ toast' = [message |-> <<ErrorPrefix, message>>, type |-> "error"]
    /\ statusLive' = StatusError
    /\ progress' = HideProgress(progress)
    /\ submitBtn' = Restored(originalBtnHTML[r])
    /\ Return(r)

\* lines 53-117 of the async listener, up to its first await, followed by the
\* second submit listener (lines 249-262) when it was registered
SubmitExit(plan, c, data) ==
    IF GateRejects(plan, c) THEN "credit-gate"
    ELSE IF Invalid(data) THEN "validation"
    ELSE "none"

Submit(r, form) ==
    /\ pc[r] = "idle"
    /\ \A q \in Runs : q < r => pc[q] # "idle"
    /\ \E usage \in {UsageOf(localStorage)}, data \in {Collect(form)} :
       \E exit \in {SubmitExit(usage.plan, usage.credits, data)} :
       LET original == submitBtn.innerHTML
           message == IF exit = "credit-gate" THEN GateToast ELSE ValidationToast
           others == {q \in Runs : InFlight(q)}
           entry == [NoLog EXCEPT
                        !.events = << <<"read", CreditsKey>>, <<"read", PlanKey>> >>
                                   \o (IF exit = "none" THEN << <<"fetch", ResumeUrl>> >> ELSE <<>>),
                        !.usage0 = usage,
                        !.usage1 = usage,
                        !.original = original,
                        !.overlapped = (others # {}),
                        !.blank = HasBlankRequired(form),
                        !.outcome = exit,
                        !.notice = IF exit = "none" THEN "none" ELSE NoticeKind(message)]
       IN  /\ statusLive' = StatusBusy
           /\ toast' = IF exit = "none" THEN toast
                       ELSE [message |-> message, type |-> "error"]
           /\ IF exit = "none"
              THEN /\ submitBtn' = [disabled |-> TRUE, innerHTML |-> SpinnerHTML]
                   /\ pc' = [pc EXCEPT ![r] = "resume"]
                   /\ credits' = [credits EXCEPT ![r] = usage.credits]
                   /\ userPlan' = [userPlan EXCEPT ![r] = usage.plan]
                   /\ originalBtnHTML' = [originalBtnHTML EXCEPT ![r] = original]
                   /\ formData' = [formData EXCEPT ![r] = data]
                   /\ sent' = [sent EXCEPT ![r] = <<Request(ResumeUrl, data, FALSE)>>]
              ELSE /\ submitBtn' = Restored(original)
                   /\ Return(r)
           /\ progress' = ProgressListener(IF exit = "none" THEN ShowProgress(progress)
                                           ELSE progress)
           /\ log' = [q \in Runs |->
                        IF q = r THEN entry
                        ELSE IF q \in others THEN [log[q] EXCEPT !.overlapped = TRUE]
                        ELSE log[q]]
    /\ UNCHANGED <<localStorage, dom, creditCount, hideTimers, atLoad>>

\* lines 128-136, in order: the resume is downloaded, then the cover letter is
\* requested
ResumeBodySteps == << <<"download", ResumeFile>>, <<"fetch", CoverLetterUrl>> >>

CommitStepsWriteFirst(plan) ==
    (IF Charged(plan) THEN << <<"write", CreditsKey>> >> ELSE <<>>)
    \o << <<"download", CoverLetterFile>> >>

\* lines 139-146, in order: the cover letter is downloaded, then the credit is
\* charged
CommitSteps(plan) ==
    << <<"download", CoverLetterFile>> >>
    \o (IF Charged(plan) THEN << <<"write", CreditsKey>> >> ELSE <<>>)

\* the run's log after a step that ends it
Closed(r, events, outcome, message, store) ==
    [log[r] EXCEPT !.events = log[r].events \o events,
                   !.outcome = outcome,
                   !.notice = NoticeKind(message),
                   !.usage1 = UsageOf(store)]

\* lines 121-126: the resume fetch settles
ResumeResponse(r, res) ==
    /\ pc[r] = "resume"
    /\ LET seen == [log[r] EXCEPT !.resumeRes = ResultTag(res)]
       IN  IF res.settled = "rejected"
           THEN /\ Catch(r, FetchRejected)
                /\ log' = [log EXCEPT ![r] =
                             [Closed(r, <<>>, "resume-request", <<ErrorPrefix, FetchRejected>>,
                                     localStorage) EXCEPT !.resumeRes = ResultTag(res)]]
           ELSE IF ~ResponseOk(res)
           THEN /\ Catch(r, ResumeError)
                /\ log' = [log EXCEPT ![r] =
                             [Closed(r, <<>>, "resume-request", <<ErrorPrefix, ResumeError>>,
                                     localStorage) EXCEPT !.resumeRes = ResultTag(res)]]
           ELSE /\ pc' = [pc EXCEPT ![r] = "resumeBlob"]
                /\ log' = [log EXCEPT ![r] = seen]
                /\ UNCHANGED <<submitBtn, statusLive, toast, progress, credits, userPlan,
                               originalBtnHTML, formData, sent>>
    /\ UNCHANGED <<localStorage, dom, creditCount, hideTimers, atLoad>>

\* lines 128-136: the resume body arrives, the resume is downloaded and the
\* cover-letter request is issued; current is what the form holds by then
\* (the user may have edited it while the run was suspended)
ResumeBody(r, ok, current) ==
    /\ pc[r] = "resumeBlob"
    /\ IF ok
       THEN /\ pc' = [pc EXCEPT ![r] = "coverLetter"]
            /\ log' = [log EXCEPT ![r].events =
                         @ \o ResumeBodySteps]
            /\ sent' = [sent EXCEPT ![r] =
                          Append(@, Request(CoverLetterUrl,
                                            CoverLetterData(formData[r], Collect(current)),
                                            Collect(current) # formData[r]))]
            /\ UNCHANGED <<submitBtn, statusLive, toast, progress, credits, userPlan,
                           originalBtnHTML, formData>>
       ELSE /\ Catch(r, BodyRejected)
            /\ log' = [log EXCEPT ![r] =
                         [Closed(r, <<>>, "resume-request", <<ErrorPrefix, BodyRejected>>,
                                 localStorage) EXCEPT !.resumeRes = "failed"]]
    /\ UNCHANGED <<localStorage, dom, creditCount, hideTimers, atLoad>>

\* lines 132-137: the cover-letter fetch settles
CoverLetterResponse(r, res) ==
    /\ pc[r] = "coverLetter"
    /\ IF res.settled = "rejected"
       THEN /\ Catch(r, FetchRejected)
            /\ log' = [log EXCEPT ![r] =
                         [Closed(r, <<>>, "cover-letter-request",
                                 <<ErrorPrefix, FetchRejected>>, localStorage)
                            EXCEPT !.coverRes = ResultTag(res)]]
       ELSE IF ~ResponseOk(res)
       THEN /\ Catch(r, CoverLetterError)
            /\ log' = [log EXCEPT ![r] =
                         [Closed(r, <<>>, "cover-letter-request",
                                 <<ErrorPrefix, CoverLetterError>>, localStorage)
                            EXCEPT !.coverRes = ResultTag(res)]]
       ELSE /\ pc' = [pc EXCEPT ![r] = "coverLetterBlob"]
            /\ log' = [log EXCEPT ![r].coverRes = ResultTag(res)]
            /\ UNCHANGED <<submitBtn, statusLive, toast, progress, credits, userPlan,
                           originalBtnHTML, formData, sent>>
    /\ UNCHANGED <<localStorage, dom, creditCount, hideTimers, atLoad>>

\* lines 139-157 and the finally of 163-166: the cover-letter body arrives, the
\* cover letter is downloaded, the credit is charged and the UI is updated
CoverLetterBody(r, ok) ==
    /\ pc[r] = "coverLetterBlob"
    /\ IF ~ok
       THEN /\ Catch(r, BodyRejected)
            /\ log' = [log EXCEPT ![r] =
                         [Closed(r, <<>>, "cover-letter-request",
                                 <<ErrorPrefix, BodyRejected>>, localStorage)
                            EXCEPT !.coverRes = "failed"]]
            /\ UNCHANGED <<localStorage, creditCount, hideTimers>>
       ELSE LET plan == userPlan[r]
                c == IF Charged(plan) THEN Decrement(credits[r]) ELSE credits[r]
                store == IF Charged(plan)
                         THEN SetItem(localStorage, CreditsKey, NumberToString(c))
                         ELSE localStorage
                events == CommitSteps(plan)
            IN  /\ localStorage' = store
                /\ IF ~dom.creditCountEl
                   THEN \* line 147 throws: getElementById returned null
                        /\ Catch(r, NullElement)
                        /\ log' = [log EXCEPT ![r] =
                                     Closed(r, events, "unexpected",
                                            <<ErrorPrefix, NullElement>>, store)]
                        /\ UNCHANGED <<creditCount, hideTimers>>
                   ELSE /\ creditCount' = CreditText(plan, c)
                        /\ toast' = [message |-> SuccessToast, type |-> "success"]
                        /\ statusLive' = StatusDone
                        /\ progress' = IF dom.progressEls
                                       THEN [progress EXCEPT !.text = ProgressDone]
                                       ELSE progress
                        /\ hideTimers' = IF dom.progressEls THEN hideTimers + 1 ELSE hideTimers
                        /\ submitBtn' = Restored(originalBtnHTML[r])
                        /\ Return(r)
                        /\ log' = [log EXCEPT ![r] =
                                     Closed(r, events, "success", SuccessToast, store)]
    /\ UNCHANGED <<dom, atLoad>>

\* line 156: a pending timer hides the progress container
HideTimer ==
    /\ hideTimers > 0
    /\ hideTimers' = hideTimers - 1
    /\ progress' = HideProgress(progress)
    /\ UNCHANGED <<localStorage, dom, submitBtn, statusLive, toast, creditCount, pc,
                   credits, userPlan, originalBtnHTML, formData, sent, log, atLoad>>

Next ==
    \/ \E r \in Runs, form \in Forms : Submit(r, form)
    \/ \E r \in Runs, res \in FetchResults : ResumeResponse(r, res)
    \/ \E r \in Runs, ok \in BOOLEAN, current \in FormsLater : ResumeBody(r, ok, current)
    \/ \E r \in Runs, res \in FetchResults : CoverLetterResponse(r, res)
    \/ \E r \in Runs, ok \in BOOLEAN : CoverLetterBody(r, ok)
    \/ HideTimer

Spec == Init /\ [][Next]_vars

\* =============================================================== claims
Started(r) == pc[r] # "idle"

Exited(r) == pc[r] = "done"

Did(r, event) == \E i \in 1..Len(log[r].events) : log[r].events[i] = event

Downloaded(r) == Did(r, <<"download", ResumeFile>>)
                 \/ Did(r, <<"download", CoverLetterFile>>)

Requested(r) == Did(r, <<"fetch", ResumeUrl>>) \/ Did(r, <<"fetch", CoverLetterUrl>>)

Wrote(r) == Did(r, <<"write", CreditsKey>>)

StoredBalance == ReadCredits(localStorage)

\* C1: when the resume request of a run succeeds and its cover-letter request
\* then fails, the run triggers no download at all (the resume it already holds
\* is not saved) and the stored credit balance is what it was before the run.
C1_NoPartialDelivery ==
    \A r \in Runs :
        (log[r].resumeRes = "ok" /\ log[r].coverRes = "failed")
            => /\ ~Downloaded(r)
               /\ ~Wrote(r)
               /\ (~log[r].overlapped => log[r].usage1 = log[r].usage0)

\* C2: a run that is alone from its submit event to its exit and whose two
\* requests both succeed leaves the stored balance exactly one below the
\* balance at its start when the plan is not "premium", and exactly equal to
\* it when the plan is "premium".
C2_SoloSuccessCharge ==
    \A r \in Runs :
        (Exited(r) /\ ~log[r].overlapped
                   /\ log[r].resumeRes = "ok" /\ log[r].coverRes = "ok")
            => log[r].usage1.credits =
                   IF log[r].usage0.plan # "premium"
                   THEN log[r].usage0.credits - 1
                   ELSE log[r].usage0.credits

C2_Witness ==
    \E r \in Runs :
        /\ Exited(r) /\ ~log[r].overlapped
        /\ log[r].resumeRes = "ok" /\ log[r].coverRes = "ok"
        /\ log[r].usage0 = [plan |-> "free", credits |-> 2]
        /\ log[r].usage1 = [plan |-> "free", credits |-> 1]

\* C3: a started run is rejected at the credit gate exactly when the plan is
\* not "premium" and the stored credits are not above 0; a rejected run
\* surfaces the exhausted-credits notification and issues no request; a run on
\* the premium plan is never rejected at the gate.
C3_CreditGate ==
    \A r \in Runs :
        Started(r) =>
            /\ (log[r].outcome = "credit-gate")
                   <=> (log[r].usage0.plan # "premium" /\ log[r].usage0.credits <= 0)
            /\ (log[r].outcome = "credit-gate")
                   => (Exited(r) /\ log[r].notice = "credits-exhausted" /\ ~Requested(r))

C3_Witness ==
    \E r, q \in Runs :
        /\ log[q].outcome = "success" /\ log[q].usage1.credits = 0
        /\ log[r].outcome = "credit-gate"
        /\ log[r].usage0 = [plan |-> "free", credits |-> 0]
        /\ ~Requested(r)

\* C4: when the resume request of a run fails (transport error or non-success
\* status), the run has exited without issuing the cover-letter request,
\* without triggering a download and without writing the stored balance.
C4_ResumeFailureStops ==
    \A r \in Runs :
        log[r].resumeRes = "failed"
            => /\ Exited(r) /\ log[r].outcome = "resume-request"
               /\ ~Did(r, <<"fetch", CoverLetterUrl>>)
               /\ ~Downloaded(r)
               /\ ~Wrote(r)
               /\ (~log[r].overlapped => log[r].usage1 = log[r].usage0)

C4_Witness ==
    \E r \in Runs :
        /\ log[r].resumeRes = "failed"
        /\ Did(r, <<"fetch", ResumeUrl>>)
        /\ toast.message = <<ErrorPrefix, ResumeError>>
        /\ log[r].usage0.credits = 1 /\ StoredBalance = 1

StorageReads(r) ==
    {i \in 1..Len(log[r].events) :
        log[r].events[i] \in {<<"read", CreditsKey>>, <<"read", PlanKey>>}}

GateOutcome(usage) ==
    IF usage.plan # "premium" /\ usage.credits <= 0 THEN "credit-gate" ELSE "validation"

C7_BalanceNotNegative ==
    /\ StoredBalance \in Nat
    /\ CreditsKey \in DOMAIN localStorage
           => localStorage[CreditsKey] = NumberToString(StoredBalance)

C7_Witness ==
    \E r, q \in Runs :
        /\ r # q
        /\ log[r].overlapped /\ log[q].overlapped
        /\ Wrote(r) /\ Wrote(q)
        /\ log[r].usage0.credits = 1 /\ log[q].usage0.credits = 1
        /\ StoredBalance = 0

\* C8: every write of the stored balance lowers it by exactly 1 from the value
\* stored just before the write, is made on a plan that is not "premium", and
\* is made by a run whose two artifacts were both retrieved.
C8_WriteLowersByOne ==
    [][\A r \in Runs :
          (Wrote(r)' /\ ~Wrote(r))
              => /\ StoredBalance' = StoredBalance - 1
                 /\ log'[r].usage0.plan # "premium"
                 /\ log'[r].resumeRes = "ok" /\ log'[r].coverRes = "ok"]_vars

Delivered(r) == Did(r, <<"download", ResumeFile>>)
                /\ Did(r, <<"download", CoverLetterFile>>)

\* C9: on a plan that is not "premium", the number of runs that delivered both
\* artifacts never exceeds the number of credits stored at page load.
C9_SuccessesWithinCredits ==
    atLoad.plan # "premium"
        => Cardinality({r \in Runs : Delivered(r)}) <= atLoad.credits

\* C10: whenever no run is in flight the submit control is enabled and shows
\* the label it had before the first submit.
C10_ControlRestored ==
    NoneInFlight
        => (~submitBtn.disabled /\ submitBtn.innerHTML = InitialBtnHTML)

Failed(r) ==
    log[r].outcome \in {"validation", "credit-gate", "resume-request",
                        "cover-letter-request", "unexpected"}

\* C11: every run that failed, whatever the kind of failure, surfaced an error
\* notification and updated the status region: once it has exited and no run
\* is in flight, the status region no longer holds "Generating documents...".
C11_FailureAnnounced ==
    \A r \in Runs :
        (Failed(r) /\ Exited(r) /\ NoneInFlight)
            => /\ log[r].notice \in {"credits-exhausted", "missing-fields", "error"}
               /\ statusLive # StatusBusy

\* C12: once failed runs have exited and nothing else is pending (no run in
\* flight, no other run started, no timer), the progress container is not
\* displayed, with both submit listeners taken into account.
C12_ProgressHiddenAfterFailure ==
    (/\ \E r \in Runs : Failed(r)
     /\ \A r \in Runs : Started(r) => (Failed(r) /\ Exited(r))
     /\ hideTimers = 0)
        => progress.display # "block"

\* C13: a run that exited surfacing a failure notification, alone from its
\* submit event to its exit, leaves the stored plan and credits as they were
\* when it started.
C13_FailureLeavesUsage ==
    \A r \in Runs :
        (Exited(r) /\ ~log[r].overlapped
                   /\ log[r].notice \in {"credits-exhausted", "missing-fields", "error"})
            => log[r].usage1 = log[r].usage0

Position(r, event) ==
    IF Did(r, event)
    THEN CHOOSE i \in 1..Len(log[r].events) : log[r].events[i] = event
    ELSE 0

Downloads(r) == {i \in 1..Len(log[r].events) : log[r].events[i][1] = "download"}

\* C14: within a run the cover-letter request is issued only after the resume
\* request was answered with success and its body retrieved, so the two are
\* never in flight together; a run whose two requests both succeeded has
\* triggered exactly two downloads, the resume first and the cover letter
\* second, both before the write of the decremented credits.
C14_ResumeThenCoverLetter ==
    \A r \in Runs :
        /\ Did(r, <<"fetch", CoverLetterUrl>>)
               => /\ log[r].resumeRes = "ok"
                  /\ pc[r] \notin {"resume", "resumeBlob"}
                  /\ 0 < Position(r, <<"fetch", ResumeUrl>>)
                  /\ Position(r, <<"fetch", ResumeUrl>>)
                         < Position(r, <<"download", ResumeFile>>)
                  /\ Position(r, <<"download", ResumeFile>>)
                         < Position(r, <<"fetch", CoverLetterUrl>>)
        /\ (Exited(r) /\ log[r].resumeRes = "ok" /\ log[r].coverRes = "ok")
               => /\ Cardinality(Downloads(r)) = 2
                  /\ Position(r, <<"download", ResumeFile>>)
                         < Position(r, <<"download", CoverLetterFile>>)
                  /\ Wrote(r) => Position(r, <<"download", CoverLetterFile>>)
                                     < Position(r, <<"write", CreditsKey>>)
                  /\ Wrote(r) <=> log[r].usage0.plan # "premium"

C14_Witness ==
    \E r \in Runs :
        /\ log[r].outcome = "success"
        /\ Cardinality(Downloads(r)) = 2
        /\ Wrote(r)
        /\ log[r].usage0 = [plan |-> "free", credits |-> 1]
        /\ StoredBalance = 0

\* C15: when the page has the credit-count element, its text agrees with the
\* persisted state in every reachable state: the infinity sign when the stored
\* plan is "premium", the decimal form of the stored balance otherwise.
C15_DisplayedCountAgrees ==
    dom.creditCountEl
        => creditCount = IF ReadPlan(localStorage) = "premium"
                         THEN Infinity
                         ELSE NumberToString(StoredBalance)

C15_Witness ==
    /\ dom.creditCountEl
    /\ creditCount = <<"0">>
    /\ \E r, q \in Runs :
           /\ r # q
           /\ log[r].outcome = "success" /\ log[q].outcome = "success"
           /\ log[r].overlapped /\ log[q].overlapped
           /\ log[r].usage0 = [plan |-> "free", credits |-> 1]

\* C16: the cover-letter request of a run carries the body its resume request
\* carried, the form as collected at submit time, whatever the form holds
\* when the cover-letter request is issued.
C16_SameSubmissionRecord ==
    \A r \in Runs :
        /\ Len(sent[r]) <= 2
        /\ Len(sent[r]) >= 1
               => (sent[r][1].url = ResumeUrl /\ sent[r][1].body = Stringify(formData[r]))
        /\ Len(sent[r]) = 2
               => (sent[r][2].url = CoverLetterUrl /\ sent[r][2].body = sent[r][1].body)

C16_Witness ==
    \E r \in Runs :
        /\ Len(sent[r]) = 2
        /\ sent[r][2].formChanged
        /\ sent[r][2].body = sent[r][1].body
        /\ pc[r] = "coverLetter"


\* a step by which a request of some run is answered or its body delivered
Answer ==
    \E r \in Runs :
        \/ \E res \in FetchResults : ResumeResponse(r, res)
        \/ \E ok \in BOOLEAN, current \in FormsLater : ResumeBody(r, ok, current)
        \/ \E res \in FetchResults : CoverLetterResponse(r, res)
        \/ \E ok \in BOOLEAN : CoverLetterBody(r, ok)

\* while a request is unanswered, some request is eventually answered; nothing
\* is assumed of the user or of the timer
RequestsAnswered == WF_vars(Answer)

\* the pages termination is checked on: nothing persisted (plan "free" with
\* one credit) or a premium plan, with the optional elements all present or
\* all absent
InitForTermination ==
    /\ Init
    /\ \/ DOMAIN localStorage = {}
       \/ /\ DOMAIN localStorage = {CreditsKey, PlanKey}
          /\ localStorage[PlanKey] = Premium
          /\ localStorage[CreditsKey] = NumberToString(0)
    /\ dom.creditCountEl = dom.progressEls

FairSpec == InitForTermination /\ [][Next]_vars /\ RequestsAnswered

TerminalOutcomes ==
    {"success", "validation", "credit-gate", "resume-request", "cover-letter-request",
     "unexpected"}

\* C17: when every issued request is eventually answered, a run that is
\* waiting on a request eventually exits; the step that ends a run records a
\* terminal outcome and leaves the submit control enabled; and a run that has
\* started and not exited is waiting on a request.
C17_EverySubmitTerminates ==
    /\ \A r \in Runs : InFlight(r) ~> Exited(r)
    /\ [][\A r \in Runs :
              (~Exited(r) /\ Exited(r)')
                  => (~submitBtn'.disabled /\ log'[r].outcome \in TerminalOutcomes)]_vars
    /\ [](\A r \in Runs : (Started(r) /\ ~Exited(r)) => InFlight(r))

C17_Witness ==
    \E r, q \in Runs :
        /\ r # q
        /\ Exited(r) /\ log[r].outcome = "cover-letter-request" /\ log[r].overlapped
        /\ Exited(q) /\ log[q].outcome = "success"
        /\ ~submitBtn.disabled


\* C18: while any run is in flight (started and not yet exited), the submit
\* control is disabled; the exit of one run does not enable it while another
\* run is still waiting on a request.
C18_DisabledWhileInFlight ==
    (\E r \in Runs : InFlight(r)) => submitBtn.disabled


\* the run of the first submit event
FirstRun == CHOOSE r \in Runs : \A q \in Runs : r <= q

\* C19: on a page loaded with nothing persisted, the first run starts from plan
\* "free" with 1 credit and is not rejected at the credit gate; with the
\* required fields filled it issues the resume request; once it has succeeded
\* (alone), the stored credits are 0 with no stored plan, and every later run
\* is rejected at the credit gate without any request.
C19_NothingPersistedOneCredit ==
    atLoad.keys = {}
        => /\ Started(FirstRun)
                  => /\ log[FirstRun].usage0 = [plan |-> "free", credits |-> 1]
                     /\ log[FirstRun].outcome # "credit-gate"
                     /\ ~log[FirstRun].blank => Did(FirstRun, <<"fetch", ResumeUrl>>)
           /\ (log[FirstRun].outcome = "success" /\ ~log[FirstRun].overlapped)
                  => /\ log[FirstRun].usage1 = [plan |-> "free", credits |-> 0]
                     /\ localStorage = [k \in {CreditsKey} |-> NumberToString(0)]
                     /\ \A q \in Runs \ {FirstRun} :
                            Started(q) => /\ Exited(q)
                                          /\ log[q].outcome = "credit-gate"
                                          /\ log[q].notice = "credits-exhausted"
                                          /\ ~Requested(q)

C19_Witness ==
    /\ atLoad.keys = {}
    /\ log[FirstRun].outcome = "success" /\ ~log[FirstRun].overlapped
    /\ \E q \in Runs \ {FirstRun} :
           /\ Exited(q) /\ log[q].outcome = "credit-gate" /\ ~log[q].blank
           /\ ~Requested(q)
    /\ localStorage = [k \in {CreditsKey} |-> NumberToString(0)]

====
